---------------------------- MODULE Spec2Model ----------------------------
(***************************************************************************)
(* A model of menuparser.py (Python 2): the title / date / menu-line       *)
(* helpers, parse_restaurant's loop over the day blocks, and main's        *)
(* fetch -> parse pool -> write pool pipeline.                             *)
(*                                                                         *)
(* Text is a sequence of one-character strings, so that lower(), strip(),  *)
(* split(), replace() and substring search are computed, not assumed.      *)
(* Python values are tagged records: [tag |-> "None"], [tag |-> "str",..], *)
(* [tag |-> "date",..], [tag |-> "dict",..], [tag |-> "Element",..] and,   *)
(* for a call that did not return, [tag |-> "raise", exc |-> ...].         *)
(*                                                                         *)
(* The module holds five specifications over the same variables:           *)
(*   SpecTitle  check_title on one title                                   *)
(*   SpecDate   check_date on one date text                                *)
(*   SpecMenu   parse_menu on one list item text                           *)
(*   SpecResto  parse_restaurant, one action per iteration of its loop     *)
(*   Spec       main: load_and_split, the parse pool, the write pool       *)
(***************************************************************************)
EXTENDS Integers, Sequences, FiniteSets, TLC

VARIABLES
    pc,         \* position of the modelled call or run
    line,       \* the text handed to the helper under check
    ret,        \* what the helper returned (or that it raised)
    log,        \* the records handed to the logging module, in order
    week,       \* parse_restaurant: the DayBlocks of the restaurant
    prev_date,  \* parse_restaurant: the date cursor
    data,       \* parse_restaurant: the MenuEntries appended so far
    doc,        \* main: the fetched document, a sequence of containers
    content,    \* main: load_and_split's result, then the parse tasks' input
    parsed,     \* main: the parse tasks' results, by task
    wtask,      \* main: each write task's position
    files       \* main: the output directory, by task-opened file

vars == <<pc, line, ret, log, week, prev_date, data, doc, content, parsed, wtask, files>>

helperVars == <<week, prev_date, data, doc, content, parsed, wtask, files>>
mainVars == <<doc, content, parsed, wtask, files>>

-----------------------------------------------------------------------------
(* Bounds of the model.                                                     *)

MaxTitleWords == 3
MaxDateParts == 4
MaxColons == 1
MaxLineWords == 4
MaxDays == 3
MaxContainers == 3

-----------------------------------------------------------------------------
(* Python values.                                                           *)

None == [tag |-> "None"]
Pending == [tag |-> "pending"]
Str(s) == [tag |-> "str", val |-> s]
Raise(e) == [tag |-> "raise", exc |-> e]

(* Characters. NBSP is u'\xa0'; EACUTE is u'\xe9', standing for any other *)
(* non-ASCII letter.                                                    *)
NBSP == "U+00A0"
EACUTE == "U+00E9"
NonAscii == {NBSP, EACUTE}
Whitespace == {" ", "\t", "\n"}
Digits == <<"0", "1", "2", "3", "4", "5", "6", "7", "8", "9">>
UpperCase == <<"A","B","C","D","E","F","G","H","I","J","K","L","M",
               "N","O","P","Q","R","S","T","U","V","W","X","Y","Z">>
LowerCase == <<"a","b","c","d","e","f","g","h","i","j","k","l","m",
               "n","o","p","q","r","s","t","u","v","w","x","y","z">>

IsAscii(s) == \A i \in 1..Len(s) : s[i] \notin NonAscii

(* str.lower() *)
LowerOf == [c \in { UpperCase[i] : i \in 1..Len(UpperCase) } |->
               LowerCase[CHOOSE i \in 1..Len(UpperCase) : UpperCase[i] = c]]

LowerChar(c) == IF c \in DOMAIN LowerOf THEN LowerOf[c] ELSE c

Lower(s) == [i \in 1..Len(s) |-> LowerChar(s[i])]

(* s[i:i+len(p)] == p *)
MatchAt(p, s, i) ==
    /\ i + Len(p) - 1 <= Len(s)
    /\ \A j \in 1..Len(p) : s[i + j - 1] = p[j]

(* Python's `p in s` for a non-empty p *)
Contains(p, s) == \E i \in 1..Len(s) : MatchAt(p, s, i)

(* the concatenation of a sequence of texts *)
RECURSIVE Concat(_)
Concat(ws) == IF ws = <<>> THEN <<>> ELSE Head(ws) \o Concat(Tail(ws))

(* sep.join(parts) *)
RECURSIVE Join(_, _)
Join(sep, parts) ==
    IF parts = <<>> THEN <<>>
    ELSE IF Len(parts) = 1 THEN parts[1]
    ELSE parts[1] \o sep \o Join(sep, Tail(parts))

(* s.split(c) for a one-character separator: always at least one part *)
RECURSIVE Split(_, _)
Split(s, c) ==
    IF \E i \in 1..Len(s) : s[i] = c
    THEN LET k == CHOOSE i \in 1..Len(s) :
                      s[i] = c /\ \A j \in 1..(i - 1) : s[j] # c
         IN <<SubSeq(s, 1, k - 1)>> \o Split(SubSeq(s, k + 1, Len(s)), c)
    ELSE <<s>>

(* s.replace(p, '') : the leftmost occurrences, left to right *)
RECURSIVE Remove(_, _)
Remove(s, p) ==
    IF s = <<>> THEN <<>>
    ELSE IF MatchAt(p, s, 1) THEN Remove(SubSeq(s, Len(p) + 1, Len(s)), p)
    ELSE <<s[1]>> \o Remove(Tail(s), p)

(* s.replace(a, b) for one-character a and b *)
ReplaceChar(s, a, b) == [i \in 1..Len(s) |-> IF s[i] = a THEN b ELSE s[i]]

(* s.rstrip(cs) and s.strip() *)
RECURSIVE RStrip(_, _)
RStrip(s, cs) ==
    IF s # <<>> /\ s[Len(s)] \in cs THEN RStrip(SubSeq(s, 1, Len(s) - 1), cs) ELSE s

RECURSIVE LStrip(_, _)
LStrip(s, cs) == IF s # <<>> /\ s[1] \in cs THEN LStrip(Tail(s), cs) ELSE s

Strip(s) == LStrip(RStrip(s, Whitespace), Whitespace)

(* 'fmt {0}'.format(x): in Python 2 a byte-string template encodes a     *)
(* unicode argument with the ascii codec, and lxml's text_content()      *)
(* is unicode as soon as the text holds a non-ASCII character; so the    *)
(* call raises UnicodeEncodeError exactly for a non-ASCII argument.      *)
FormatRaises(s) == ~IsAscii(s)

-----------------------------------------------------------------------------
(* Configuration and tables.                                                *)

S_menu == <<"m","e","n","u">>
S_etterbeek == <<"e","t","t","e","r","b","e","e","k">>
S_jette == <<"j","e","t","t","e">>
S_week_menu == <<"w","e","e","k"," ","m","e","n","u">>
S_weekmenu == <<"w","e","e","k","m","e","n","u">>
S_unknown == <<"u","n","k","n","o","w","n">>
S_en == <<"e","n">>
S_nl == <<"n","l">>
S_json == <<".","j","s","o","n">>

CAMPUS_NAMES == <<S_etterbeek, S_jette>>

-----------------------------------------------------------------------------
(* check_title                                                              *)

(* for c in CAMPUS_NAMES: if c in line: campus = c   (no break) *)
RECURSIVE CampusLoop(_, _, _)
CampusLoop(l, i, campus) ==
    IF i > Len(CAMPUS_NAMES) THEN campus
    ELSE CampusLoop(l, i + 1, IF Contains(CAMPUS_NAMES[i], l) THEN CAMPUS_NAMES[i] ELSE campus)

(* '{0}.{1}'.format(campus, language) *)
FormatKey(campus, language) == campus \o <<".">> \o language

check_title_strict(title) ==
    LET l == Lower(title)
        has_campus == \E i \in 1..Len(CAMPUS_NAMES) : Contains(CAMPUS_NAMES[i], l)
        language == IF Contains(S_weekmenu, l) THEN S_nl
                    ELSE IF Contains(S_week_menu, l) THEN S_en ELSE S_unknown
    IN IF ~has_campus \/ language = S_unknown THEN None
       ELSE Str(FormatKey(CampusLoop(l, 1, S_unknown), language))

check_title(title) ==
    LET l == Lower(title)
        has_menu == Contains(S_menu, l)
        has_campus == \E i \in 1..Len(CAMPUS_NAMES) : Contains(CAMPUS_NAMES[i], l)
        campus == CampusLoop(l, 1, S_unknown)
        lang1 == IF Contains(S_week_menu, l) THEN S_en ELSE S_unknown
        language == IF Contains(S_weekmenu, l) THEN S_nl ELSE lang1
    IN IF ~(has_menu /\ has_campus) THEN None
       ELSE Str(FormatKey(campus, language))

-----------------------------------------------------------------------------
(* SpecTitle: check_title applied to a title built from a few words.        *)

TitleWords ==
    { <<"E","t","t","e","r","b","e","e","k"," ">>,
      <<"J","e","t","t","e"," ">>,
      <<"W","e","e","k"," ">>,
      <<"w","e","e","k">>,
      <<"M","e","n","u">>,
      <<"m","e","n","u"," ">>,
      <<"S","n","a","c","k","s"," ">> }

(* the titles of at most max words *)
Titles(max) == { Concat(ws) : ws \in UNION { [1..n -> TitleWords] : n \in 0..max } }

Idle ==
    /\ week = <<>> /\ prev_date = None /\ data = <<>>
    /\ doc = <<>> /\ content = <<>> /\ parsed = <<>> /\ wtask = <<>> /\ files = <<>>

InitTitle ==
    /\ pc = "call"
    /\ line \in Titles(MaxTitleWords)
    /\ ret = Pending
    /\ log = <<>>
    /\ Idle

CallCheckTitle ==
    /\ pc = "call"
    /\ ret' = check_title(line)
    /\ pc' = "done"
    /\ UNCHANGED <<line, log>>
    /\ UNCHANGED helperVars

NextTitle == CallCheckTitle

SpecTitle == InitTitle /\ [][NextTitle]_vars

-----------------------------------------------------------------------------
(* Claims about check_title (under SpecTitle).                              *)

HasCampusToken(l) == \E i \in 1..Len(CAMPUS_NAMES) : Contains(CAMPUS_NAMES[i], l)
HasLanguageMarker(l) == Contains(S_week_menu, l) \/ Contains(S_weekmenu, l)

(* "<campus>.<language>" for a campus token and a language marker of l *)
IsCompositeOf(r, l) ==
    /\ r.tag = "str"
    /\ \E i \in 1..Len(CAMPUS_NAMES) :
          /\ Contains(CAMPUS_NAMES[i], l)
          /\ r.val = FormatKey(CAMPUS_NAMES[i],
                               IF Contains(S_weekmenu, l) THEN S_nl ELSE S_en)

(* C1 as stated: a title with a campus token and a language marker gives   *)
(* the composite "<campus>.<language>"; a title missing either gives None. *)
C1_AsStated ==
    pc = "done" =>
        LET l == Lower(line)
        IN IF HasCampusToken(l) /\ HasLanguageMarker(l)
           THEN IsCompositeOf(ret, l)
           ELSE ret = None

(* C1 amended: a title with a campus token and a language marker gives the *)
(* composite "<campus>.<language>"; a title with no campus token or        *)
(* without the word "menu" gives None; a title with a campus token and     *)
(* "menu" but no language marker gives the composite "<campus>.unknown".   *)
C1_TitleKey ==
    pc = "done" =>
        LET l == Lower(line)
        IN /\ (HasCampusToken(l) /\ HasLanguageMarker(l)) => IsCompositeOf(ret, l)
           /\ (~HasCampusToken(l) \/ ~Contains(S_menu, l)) => ret = None
           /\ (HasCampusToken(l) /\ Contains(S_menu, l) /\ ~HasLanguageMarker(l)) =>
                 /\ ret.tag = "str"
                 /\ \E i \in 1..Len(CAMPUS_NAMES) :
                       /\ Contains(CAMPUS_NAMES[i], l)
                       /\ ret.val = FormatKey(CAMPUS_NAMES[i], S_unknown)

(* a title with a campus token and "menu" but no language marker was      *)
(* resolved to the key etterbeek.unknown                                   *)
C1_Witness ==
    /\ pc = "done"
    /\ Contains(S_etterbeek, Lower(line))
    /\ Contains(S_menu, Lower(line))
    /\ ~HasLanguageMarker(Lower(line))
    /\ ret = Str(FormatKey(S_etterbeek, S_unknown))

(* C9 as stated: when a title holds several campus names, the key's campus *)
(* is the first of CAMPUS_NAMES, in list order, that the title contains.   *)
C9_FirstCampusWins ==
    (pc = "done" /\ ret.tag = "str") =>
        LET l == Lower(line)
            first == CHOOSE i \in 1..Len(CAMPUS_NAMES) :
                        /\ Contains(CAMPUS_NAMES[i], l)
                        /\ \A j \in 1..(i - 1) : ~Contains(CAMPUS_NAMES[j], l)
        IN MatchAt(CAMPUS_NAMES[first] \o <<".">>, ret.val, 1)

-----------------------------------------------------------------------------
(* Dates: datetime.date, its str() and the addition of one day.             *)

YearModulus == 1000
MinYearRemainder == 18
Century == 2000

Date(y, m, d) == [tag |-> "date", y |-> y, m |-> m, d |-> d]

IsLeap(y) == (y % 4 = 0) /\ ((y % 100 # 0) \/ (y % 400 = 0))

DaysInMonth(y, m) ==
    IF m = 2 THEN (IF IsLeap(y) THEN 29 ELSE 28)
    ELSE IF m \in {4, 6, 9, 11} THEN 30 ELSE 31

(* datetime.date(y, m, d): ValueError unless it is a day of the calendar *)
MakeDate(y, m, d) ==
    IF /\ y \in 1..9999
       /\ m \in 1..12
       /\ d \in 1..DaysInMonth(y, m)
    THEN Date(y, m, d)
    ELSE Raise("ValueError")

(* date + datetime.timedelta(days=1): OverflowError past 9999-12-31 *)
AddOneDay(dt) ==
    IF dt.d < DaysInMonth(dt.y, dt.m) THEN Date(dt.y, dt.m, dt.d + 1)
    ELSE IF dt.m < 12 THEN Date(dt.y, dt.m + 1, 1)
    ELSE IF dt.y < 9999 THEN Date(dt.y + 1, 1, 1)
    ELSE Raise("OverflowError")

(* the decimal digits of n, zero-padded to w characters: '%0wd' % n *)
RECURSIVE Pad(_, _)
Pad(n, w) ==
    IF w <= 1 /\ n < 10 THEN <<Digits[n + 1]>>
    ELSE Pad(n \div 10, w - 1) \o <<Digits[(n % 10) + 1]>>

(* str(date): isoformat for a date, 'None' for None *)
DateStr(dt) ==
    IF dt.tag = "date"
    THEN Pad(dt.y, 4) \o <<"-">> \o Pad(dt.m, 2) \o <<"-">> \o Pad(dt.d, 2)
    ELSE <<"N","o","n","e">>

-----------------------------------------------------------------------------
(* check_date                                                               *)

(* s.isdigit(): non-empty and decimal digits only *)
IsDigit(s) == s # <<>> /\ \A i \in 1..Len(s) : \E k \in 1..10 : Digits[k] = s[i]

DigitValue(c) == (CHOOSE k \in 1..10 : Digits[k] = c) - 1

(* int(s) for a string of digits *)
RECURSIVE ToInt(_)
ToInt(s) ==
    IF s = <<>> THEN 0
    ELSE 10 * ToInt(SubSeq(s, 1, Len(s) - 1)) + DigitValue(s[Len(s)])

(* filter(lambda s: s.isdigit(), parts) *)
RECURSIVE FilterDigits(_)
FilterDigits(parts) ==
    IF parts = <<>> THEN <<>>
    ELSE (IF IsDigit(Head(parts)) THEN <<Head(parts)>> ELSE <<>>)
             \o FilterDigits(Tail(parts))

check_date(text) ==
    LET stripped == RStrip(text, {":"})
        parts == FilterDigits(Split(stripped, "."))
    IN IF Len(parts) # 3 THEN None
       ELSE LET dd == ToInt(parts[1])
                mm == ToInt(parts[2])
                yyyy == ToInt(parts[3])
            IN IF (yyyy % YearModulus) < MinYearRemainder THEN None
               ELSE MakeDate(Century + (yyyy % YearModulus), mm, dd)

-----------------------------------------------------------------------------
(* SpecDate: check_date applied to dot-joined tokens and trailing colons.   *)

DateTokens ==
    { <<"1">>, <<"3","1">>, <<"3","2">>, <<"2">>, <<"1","3">>, <<"1","8">>,
      <<"1","7">>, <<"2","0","1","8">>, <<"1","9","9","9">>, <<"x">>, <<>> }

(* at most maxParts tokens joined by dots, then at most maxColons colons *)
DateTexts(maxParts, maxColons) ==
    { Join(<<".">>, ps) \o [i \in 1..k |-> ":"] :
        ps \in UNION { [1..n -> DateTokens] : n \in 1..maxParts },
        k \in 0..maxColons }

InitDate ==
    /\ pc = "call"
    /\ line \in DateTexts(MaxDateParts, MaxColons)
    /\ ret = Pending
    /\ log = <<>>
    /\ Idle

CallCheckDate ==
    /\ pc = "call"
    /\ ret' = check_date(line)
    /\ pc' = "done"
    /\ UNCHANGED <<line, log>>
    /\ UNCHANGED helperVars

NextDate == CallCheckDate

SpecDate == InitDate /\ [][NextDate]_vars

-----------------------------------------------------------------------------
(* Claims about check_date (under SpecDate).                                *)

(* the text without its one optional trailing colon *)
DropOneColon(s) == IF s # <<>> /\ s[Len(s)] = ":" THEN SubSeq(s, 1, Len(s) - 1) ELSE s

(* D.M.YY, DD.MM.YYYY and their mixes *)
IsDateForm(s) ==
    LET ps == Split(DropOneColon(s), ".")
    IN /\ Len(ps) = 3
       /\ \A i \in 1..3 : IsDigit(ps[i])
       /\ Len(ps[1]) \in {1, 2} /\ Len(ps[2]) \in {1, 2} /\ Len(ps[3]) \in {2, 4}

(* C2 as stated: a text D.M.YY or DD.MM.YYYY (one optional trailing colon) *)
(* with a year remainder of at least 18 gives the date with that day, that *)
(* month and the year 20YY resp. YYYY (stated here for the texts whose day *)
(* and month are a day of the calendar); a remainder below 18, or a number *)
(* of numeric tokens other than three, gives None.                         *)
C2_AsStated ==
    pc = "done" =>
        LET ps == Split(DropOneColon(line), ".")
            nums == FilterDigits(Split(RStrip(line, {":"}), "."))
        IN /\ (/\ IsDateForm(line)
               /\ ToInt(ps[3]) % 1000 >= 18
               /\ ToInt(ps[2]) \in 1..12
               /\ ToInt(ps[1]) \in 1..DaysInMonth(ToInt(ps[3]), ToInt(ps[2]))) =>
                 ret = Date(IF Len(ps[3]) = 2 THEN 2000 + ToInt(ps[3]) ELSE ToInt(ps[3]),
                            ToInt(ps[2]), ToInt(ps[1]))
           /\ (Len(nums) # 3 \/ ToInt(nums[3]) % 1000 < 18) => ret = None

-----------------------------------------------------------------------------
(* parse_menu                                                               *)

DEFAULT_COLOR == "#f0eb93"

COLOR_MAPPING ==
    { <<<<"s","o","e","p">>, "#fdb85b">>,
      <<<<"s","o","u","p">>, "#fdb85b">>,
      <<<<"m","e","n","u"," ","1">>, "#68b6f3">>,
      <<<<"d","a","g"," ","m","e","n","u">>, "#68b6f3">>,
      <<<<"d","a","g","m","e","n","u">>, "#68b6f3">>,
      <<<<"h","e","a","l","t","h">>, "#ff9861">>,
      <<<<"v","i","s">>, "#ff9861">>,
      <<<<"f","i","s","h">>, "#ff9861">>,
      <<<<"m","e","n","u"," ","2">>, "#cc93d5">>,
      <<<<"m","e","a","l","s"," ","o","f"," ","t","h","e"," ","w","o","r","l","d">>, "#cc93d5">>,
      <<<<"f","a","i","r","t","r","a","d","e">>, "#cc93d5">>,
      <<<<"f","a","i","r","t","r","a","d","e"," ","m","e","n","u">>, "#cc93d5">>,
      <<<<"v","e","g","g","i","e">>, "#87b164">>,
      <<<<"v","e","g","g","i","e","d","a","g">>, "#87b164">>,
      <<<<"p","a","s","t","a">>, "#de694a">>,
      <<<<"p","a","s","t","a"," ","b","a","r">>, "#de694a">>,
      <<<<"w","o","k">>, "#6c4c42">> }

S_van_de_week == <<" ","v","a","n"," ","d","e"," ","w","e","e","k">>
S_of_the_week == <<" ","o","f"," ","t","h","e"," ","w","e","e","k">>

(* COLOR_MAPPING.get(key, None), as a color or the string "None" *)
ColorGet(key) ==
    IF \E e \in COLOR_MAPPING : e[1] = key
    THEN (CHOOSE e \in COLOR_MAPPING : e[1] = key)[2]
    ELSE "None"

normalize_text(text) == Strip(ReplaceChar(text, NBSP, " "))

MenuItem(name, dish, color) == [tag |-> "dict", name |-> name, dish |-> dish, color |-> color]

(* a call's outcome: its value (or raise) and the records it logged *)
Outcome(v, l) == [ret |-> v, log |-> l]

parse_menu(m) ==
    LET parts == Split(m, ":")
        name0 == normalize_text(parts[1])
        menu_dish == normalize_text(Join(<<":">>, Tail(parts)))
        name1 == Remove(name0, S_van_de_week)
        menu_name == Remove(name1, S_of_the_week)
        menu_color == ColorGet(Lower(menu_name))
    IN IF menu_color # "None"
       THEN Outcome(MenuItem(menu_name, menu_dish, menu_color), <<>>)
       ELSE IF FormatRaises(menu_name)
            THEN Outcome(Raise("UnicodeEncodeError"), <<>>)
            ELSE Outcome(MenuItem(menu_name, menu_dish, DEFAULT_COLOR),
                         <<"warning: no color">>)

-----------------------------------------------------------------------------
(* SpecMenu: parse_menu applied to a list item text built from a few words. *)

LineWords ==
    { <<"S","o","e","p">>,
      <<"U","n","k","n","o","w","n"," ","D","i","s","h">>,
      S_van_de_week,
      <<":">>,
      <<" ","X">>,
      <<" ","T","o","m","a","t","e","n","s","o","e","p">>,
      <<EACUTE>>,
      <<NBSP>> }

(* the lines of at most max words *)
Lines(max) == { Concat(ws) : ws \in UNION { [1..n -> LineWords] : n \in 0..max } }

InitMenu ==
    /\ pc = "call"
    /\ line \in Lines(MaxLineWords)
    /\ ret = Pending
    /\ log = <<>>
    /\ Idle

CallParseMenu ==
    /\ pc = "call"
    /\ ret' = parse_menu(line).ret
    /\ log' = log \o parse_menu(line).log
    /\ pc' = "done"
    /\ UNCHANGED line
    /\ UNCHANGED helperVars

NextMenu == CallParseMenu

SpecMenu == InitMenu /\ [][NextMenu]_vars

-----------------------------------------------------------------------------
(* Claims about parse_menu (under SpecMenu).                                *)

HasColon(s) == \E i \in 1..Len(s) : s[i] = ":"
FirstColon(s) == CHOOSE i \in 1..Len(s) : s[i] = ":" /\ \A j \in 1..(i - 1) : s[j] # ":"
BeforeColon(s) == IF HasColon(s) THEN SubSeq(s, 1, FirstColon(s) - 1) ELSE s
AfterColon(s) == IF HasColon(s) THEN SubSeq(s, FirstColon(s) + 1, Len(s)) ELSE <<>>

(* C7 as stated: for every line the name is the normalized text before the *)
(* first colon without the "of the week" / "van de week" boilerplate, the  *)
(* dish the normalized text after the first colon (later colons kept), the *)
(* color the COLOR_MAPPING entry of the lower-cased name, or else #f0eb93  *)
(* with one logged warning.                                                *)
C7_AsStated ==
    pc = "done" =>
        LET name == Remove(Remove(normalize_text(BeforeColon(line)), S_van_de_week),
                           S_of_the_week)
            dish == normalize_text(AfterColon(line))
            known == \E e \in COLOR_MAPPING : e[1] = Lower(name)
        IN /\ ret.tag = "dict"
           /\ ret.name = name
           /\ ret.dish = dish
           /\ known => (ret.color = ColorGet(Lower(name)) /\ log = <<>>)
           /\ ~known => (ret.color = "#f0eb93" /\ log = <<"warning: no color">>)

(* whenever parse_menu returns at all, it returns what C7 says *)
ParseMenuWhenItReturns ==
    (pc = "done" /\ ret.tag # "raise") => C7_AsStated

-----------------------------------------------------------------------------
(* parse_restaurant                                                         *)

(* A DayBlock is the text of its first <p> and the texts of its <li>s.     *)
DayBlock(date_text, meals) == [date |-> date_text, meals |-> meals]

(* an lxml element that was never parsed: what `m` is bound to before      *)
(* line 194 assigns to it                                                  *)
Element(text) == [tag |-> "Element", text |-> text]

MenuEntry(date, menus) == [date |-> DateStr(date), menus |-> menus]

SeedDate == Date(2000, 1, 1)

(* The loop over `meals` (lines 192-198) from item j on.  The result is    *)
(* the menus list, the records logged, and whether an exception left the   *)
(* loop.  parse_menu's failure is caught; the handler's own format() of    *)
(* date_string is not inside any try.                                      *)
RECURSIVE MealsLoop(_, _, _, _, _)
MealsLoop(meals, j, date_string, menus, lg) ==
    IF j > Len(meals) THEN [menus |-> menus, log |-> lg, exc |-> "none"]
    ELSE LET r == parse_menu(meals[j])
         IN IF r.ret.tag = "raise"
            THEN IF FormatRaises(date_string)
                 THEN [menus |-> menus, log |-> lg, exc |-> "UnicodeEncodeError"]
                 ELSE MealsLoop(meals, j + 1, date_string,
                                Append(menus, Element(meals[j])),
                                Append(lg, "exception: menu"))
            ELSE MealsLoop(meals, j + 1, date_string,
                           Append(menus, r.ret), lg \o r.log)

(* One iteration of `for day in week` (lines 175-200) from the state       *)
(* st = [prev_date, data, log, exc]: exc is "none" while the function runs *)
(* and the exception's name once one has left it.                          *)
ParseDay(st, day) ==
    LET date_string == day.date
        checked == check_date(date_string)
        (* lines 179-189: the date of the day, the cursor, the log *)
        dated ==
            IF checked.tag = "raise" THEN [exc |-> checked.exc]
            ELSE IF checked # None
            THEN [exc |-> "none", date |-> checked, prev |-> checked, log |-> <<>>]
            ELSE IF FormatRaises(date_string) THEN [exc |-> "UnicodeEncodeError"]
            ELSE LET next == AddOneDay(st.prev_date)
                 IN IF next.tag = "raise"
                    THEN [exc |-> "none", date |-> None, prev |-> st.prev_date,
                          log |-> <<"warning: date", "exception: date">>]
                    ELSE [exc |-> "none", date |-> next, prev |-> next,
                          log |-> <<"warning: date">>]
    IN IF dated.exc # "none"
       THEN [st EXCEPT !.exc = dated.exc]
       ELSE LET ml == MealsLoop(day.meals, 1, date_string, <<>>, <<>>)
            IN IF ml.exc # "none"
               THEN [st EXCEPT !.exc = ml.exc,
                               !.prev_date = dated.prev,
                               !.log = st.log \o dated.log \o ml.log]
               ELSE [prev_date |-> dated.prev,
                     data |-> Append(st.data, MenuEntry(dated.date, ml.menus)),
                     log |-> st.log \o dated.log \o ml.log,
                     exc |-> "none"]

(* the whole call: the state after the loop *)
RECURSIVE ParseLoop(_, _, _)
ParseLoop(st, wk, i) ==
    IF i > Len(wk) \/ st.exc # "none" THEN st
    ELSE ParseLoop(ParseDay(st, wk[i]), wk, i + 1)

parse_restaurant(wk) ==
    ParseLoop([prev_date |-> SeedDate, data |-> <<>>, log |-> <<>>, exc |-> "none"], wk, 1)

-----------------------------------------------------------------------------
(* SpecResto: parse_restaurant on a week of DayBlocks, a day per step.      *)

DayDates ==
    { <<"1",".","3",".","2","0","1","8">>,
      <<"3","1",".","1","2",".","1","8",":">>,
      <<EACUTE,".","2","8",".","2",".","2","0","1","9">>,
      <<"x">>,
      <<"1",".","1",".","1","7">>,
      <<"3","2",".","1","3",".","2","0","1","8">>,
      <<"M","a","a","n","d","a","g",NBSP,"1","2",".","3",".","1","8">> }

DayMeals ==
    { <<>>,
      << <<"S","o","e","p",":"," ","X">> >>,
      << <<"V",EACUTE,"g",EACUTE,":"," ","X">>, <<"W","o","k",":"," ","Y",":","Z">> >> }

DayBlocks == { DayBlock(d, ms) : d \in DayDates, ms \in DayMeals }

(* the weeks of at most max days *)
Weeks(max) == UNION { [1..n -> DayBlocks] : n \in 0..max }

InitResto ==
    /\ pc = "loop"
    /\ week \in Weeks(MaxDays)
    /\ prev_date = SeedDate
    /\ data = <<>>
    /\ log = <<>>
    /\ line = <<>>
    /\ ret = Pending
    /\ doc = <<>> /\ content = <<>> /\ parsed = <<>> /\ wtask = <<>> /\ files = <<>>

(* one iteration of the loop: the next day of the week *)
IterateDay ==
    /\ pc = "loop"
    /\ Len(data) < Len(week)
    /\ LET st == ParseDay([prev_date |-> prev_date, data |-> data, log |-> log,
                           exc |-> "none"],
                          week[Len(data) + 1])
       IN /\ prev_date' = st.prev_date
          /\ data' = st.data
          /\ log' = st.log
          /\ pc' = IF st.exc = "none" THEN "loop" ELSE "raised"
          /\ ret' = IF st.exc = "none" THEN ret ELSE Raise(st.exc)
    /\ UNCHANGED <<line, week>>
    /\ UNCHANGED mainVars

(* return name, data *)
ReturnData ==
    /\ pc = "loop"
    /\ Len(data) = Len(week)
    /\ pc' = "returned"
    /\ ret' = [tag |-> "data", val |-> data]
    /\ UNCHANGED <<line, log, week, prev_date, data>>
    /\ UNCHANGED mainVars

NextResto == IterateDay \/ ReturnData

SpecResto == InitResto /\ [][NextResto]_vars

-----------------------------------------------------------------------------
(* Claims about parse_restaurant (under SpecResto).                         *)

(* a calendar date can be obtained from the date text *)
Parseable(text) == check_date(text).tag = "date"

(* the cursor after the first i blocks of wk under the carry-forward rule: *)
(* a parsed date D sets it to D, any other block advances it by one day    *)
RECURSIVE Cursor(_, _)
Cursor(wk, i) ==
    IF i = 0 THEN Date(2000, 1, 1)
    ELSE IF Parseable(wk[i].date) THEN check_date(wk[i].date)
    ELSE AddOneDay(Cursor(wk, i - 1))

(* C3 as stated: for every DayBlock sequence the output has one MenuEntry  *)
(* per block, in order; a block whose date parses to D is dated D, the     *)
(* k-th consecutive block with an unparseable date after it D + k days,    *)
(* counted from 2000-01-01 before any parsed block.                        *)
C3_AsStated ==
    pc # "loop" =>
        /\ pc = "returned"
        /\ Len(data) = Len(week)
        /\ \A i \in 1..Len(week) : data[i].date = DateStr(Cursor(week, i))

(* what does hold: the entries appended so far follow the chaining rule,   *)
(* and a call that returns has appended one entry per block                *)
ChainingOfAppendedEntries ==
    /\ Len(data) <= Len(week)
    /\ \A i \in 1..Len(data) : data[i].date = DateStr(Cursor(week, i))
    /\ pc = "returned" => Len(data) = Len(week)

(* C4 as stated: when parse_menu raises on a list item, the failure is     *)
(* logged, None is recorded at the item's position, the other items keep   *)
(* their parsed values and positions, and the day's entry is emitted.      *)
C4_AsStated ==
    \A i \in 1..Len(data) :
        /\ Len(data[i].menus) = Len(week[i].meals)
        /\ \A j \in 1..Len(week[i].meals) :
              LET r == parse_menu(week[i].meals[j]).ret
              IN IF r.tag = "raise"
                 THEN /\ data[i].menus[j] = None
                      /\ \E k \in 1..Len(log) : log[k] = "exception: menu"
                 ELSE data[i].menus[j] = r

(* C8 as stated: a DayBlock whose date text gives no calendar date never   *)
(* makes parse_restaurant raise; the block is dated cursor + 1 day and its *)
(* entry is emitted.                                                       *)
C8_AsStated ==
    /\ pc = "raised" => Parseable(week[Len(data) + 1].date)
    /\ \A i \in 1..Len(data) :
          ~Parseable(week[i].date) =>
              data[i].date = DateStr(AddOneDay(Cursor(week, i - 1)))

-----------------------------------------------------------------------------
(* load_and_split                                                           *)

(* A restaurant container (div.pg-tab): the text of the h2 of its first    *)
(* content holder, and its remaining content holders, the DayBlocks.       *)
Container(title, wk) == [title |-> title, week |-> wk]

(* div.text_content(): the title and every text below it *)
TextContent(c) ==
    c.title \o Concat([i \in 1..Len(c.week) |->
                          c.week[i].date \o Concat(c.week[i].meals)])

(* data[resto_key] = sections[1:] on a dict kept as a sequence of items:   *)
(* an existing key gets the new value, a new key a new item.  The order of *)
(* items() is arbitrary in Python 2; nothing below depends on it.          *)
StoreAppend(d, key, wk) == Append(d, [key |-> key, week |-> wk])

Store(d, key, wk) ==
    IF \E i \in 1..Len(d) : d[i].key = key
    THEN [i \in 1..Len(d) |-> IF d[i].key = key THEN [key |-> key, week |-> wk] ELSE d[i]]
    ELSE Append(d, [key |-> key, week |-> wk])

(* the loop over sel_resto(tree) (lines 150-161) from container i on;      *)
(* st = [data, log, exc]                                                   *)
RECURSIVE SplitLoop(_, _, _)
SplitLoop(st, document, i) ==
    IF i > Len(document) \/ st.exc # "none" THEN st
    ELSE LET div == document[i]
             resto_key == check_title(div.title)
         IN IF resto_key = None
            THEN IF FormatRaises(TextContent(div))
                 THEN [st EXCEPT !.exc = "UnicodeEncodeError"]
                 ELSE SplitLoop([st EXCEPT !.log = Append(st.log, "exception: title")],
                                document, i + 1)
            ELSE SplitLoop([st EXCEPT !.data = Store(st.data, resto_key.val, div.week)],
                           document, i + 1)

load_and_split(document) ==
    SplitLoop([data |-> <<>>, log |-> <<>>, exc |-> "none"], document, 1)

-----------------------------------------------------------------------------
(* write_to_json                                                            *)

PoolSize == 4

(* filename = name.lower() + '.json' *)
FileName(name) == Lower(name) \o S_json

(* json.dumps(data): TypeError for a list that holds an lxml element *)
Serializable(entries) ==
    \A i \in 1..Len(entries) :
        \A j \in 1..Len(entries[i].menus) : entries[i].menus[j].tag # "Element"

Truncated == [tag |-> "empty"]
Written(entries) == [tag |-> "json", val |-> entries]
Partial == [tag |-> "partial"]

(* the directory with file fn opened for writing by task i *)
Opened(dir, fn, i) ==
    [f \in (DOMAIN dir) \cup {fn} |->
        IF f = fn
        THEN [content |-> Truncated,
              openers |-> (IF fn \in DOMAIN dir THEN dir[fn].openers ELSE {}) \cup {i}]
        ELSE dir[f]]

-----------------------------------------------------------------------------
(* Spec: main() once requests.get has returned the document (a failed     *)
(* fetch raises out of main before anything else happens).  The parse      *)
(* tasks share nothing but the log, so each is one step; a write task is   *)
(* three steps (open, dump and write, close), interleaved with the other   *)
(* write tasks of the pool.  The environment decides whether an open, a    *)
(* write or a close fails.                                                 *)

S_EtterbeekWeekMenu ==
    <<"E","t","t","e","r","b","e","e","k"," ","W","e","e","k"," ","M","e","n","u">>
S_ETTERBEEKweekmenu ==
    <<"E","T","T","E","R","B","E","E","K"," ","w","e","e","k"," ","m","e","n","u">>
S_JetteWeekmenu == <<"J","e","t","t","e"," ","w","e","e","k","m","e","n","u">>
S_CafeteriaSnacks ==
    <<"C","a","f","e","t","e","r","i","a"," ","S","n","a","c","k","s">>

S_date_ok == <<"1",".","3",".","2","0","1","8">>
S_date_bad == <<"3","2",".","1","3",".","2","0","1","8">>
S_item_ok == <<"S","o","e","p",":"," ","T","o","m","a","t","e","n","s","o","e","p">>
S_item_bad == <<"V",EACUTE,"g",EACUTE,":"," ","X">>

WeekOk == << DayBlock(S_date_ok, <<S_item_ok>>) >>
WeekItemFails == << DayBlock(S_date_ok, <<S_item_bad, S_item_ok>>) >>
WeekDateFails == << DayBlock(S_date_bad, <<S_item_ok>>) >>

Containers ==
    { Container(S_EtterbeekWeekMenu, WeekOk),
      Container(S_ETTERBEEKweekmenu, WeekItemFails),
      Container(S_JetteWeekmenu, WeekOk),
      Container(S_JetteWeekmenu, WeekDateFails),
      Container(S_CafeteriaSnacks, WeekOk),
      Container(S_CafeteriaSnacks, WeekItemFails) }

(* the documents of at most max containers *)
Documents(max) == UNION { [1..n -> Containers] : n \in 0..max }

Tasks == 1..Len(content)

Init ==
    /\ pc = "load"
    /\ doc \in Documents(MaxContainers)
    /\ content = <<>>
    /\ parsed = <<>>
    /\ wtask = <<>>
    /\ files = [f \in {} |-> Truncated]
    /\ log = <<>>
    /\ line = <<>> /\ ret = Pending
    /\ week = <<>> /\ prev_date = None /\ data = <<>>

restoVars == <<line, ret, week, prev_date, data>>

(* content = load_and_split(URL) *)
LoadAndSplit ==
    /\ pc = "load"
    /\ LET r == load_and_split(doc)
       IN /\ log' = log \o r.log
          /\ IF r.exc = "none"
             THEN /\ content' = r.data
                  /\ parsed' = [i \in 1..Len(r.data) |-> Pending]
                  /\ pc' = "parse"
             ELSE /\ UNCHANGED <<content, parsed>>
                  /\ pc' = "aborted"
    /\ UNCHANGED <<doc, wtask, files>>
    /\ UNCHANGED restoVars

(* a pool worker runs parse_restaurant on one item of content *)
ParseTask(i) ==
    /\ pc = "parse"
    /\ parsed[i] = Pending
    /\ LET r == parse_restaurant(content[i].week)
       IN /\ parsed' = [parsed EXCEPT ![i] =
                           [tag |-> IF r.exc = "none" THEN "parsed" ELSE "raise",
                            name |-> content[i].key, data |-> r.data, exc |-> r.exc]]
          /\ log' = log \o r.log
    /\ UNCHANGED <<pc, doc, content, wtask, files>>
    /\ UNCHANGED restoVars

(* pool.map re-raises a task's exception in main, which ends the run *)
ParseRaised ==
    /\ pc = "parse"
    /\ \E i \in Tasks : parsed[i].tag = "raise"
    /\ pc' = "aborted"
    /\ UNCHANGED <<log, doc, content, parsed, wtask, files>>
    /\ UNCHANGED restoVars

(* pool.map returns the results; pool.map(write_to_json, parsed) starts *)
ParseJoin ==
    /\ pc = "parse"
    /\ \A i \in Tasks : parsed[i].tag = "parsed"
    /\ pc' = "write"
    /\ wtask' = [i \in Tasks |-> "queued"]
    /\ UNCHANGED <<log, doc, content, parsed, files>>
    /\ UNCHANGED restoVars

(* the write tasks run while main waits in the second pool.map, and the    *)
(* ones already started may go on after main has raised                    *)
Writing == pc = "write" \/ (pc = "aborted" /\ wtask # <<>>)

Busy == { j \in DOMAIN wtask : wtask[j] \in {"open", "dumped"} }

(* io.open(os.path.join(SAVE_PATH, filename), 'w', encoding='utf8') *)
WriteOpen(i) ==
    /\ Writing
    /\ wtask[i] = "queued"
    /\ Cardinality(Busy) < PoolSize
    /\ files' = Opened(files, FileName(parsed[i].name), i)
    /\ wtask' = [wtask EXCEPT ![i] = "open"]
    /\ UNCHANGED <<pc, log, doc, content, parsed>>
    /\ UNCHANGED restoVars

(* io.open raises IOError (no permission, no directory): line 209 is not   *)
(* inside the try of line 210                                              *)
WriteOpenFails(i) ==
    /\ Writing
    /\ wtask[i] = "queued"
    /\ Cardinality(Busy) < PoolSize
    /\ wtask' = [wtask EXCEPT ![i] = "raised"]
    /\ UNCHANGED <<pc, log, doc, content, parsed, files>>
    /\ UNCHANGED restoVars

(* f.write(unicode(json.dumps(data, ensure_ascii=False))) inside the try *)
WriteDump(i) ==
    /\ Writing
    /\ wtask[i] = "open"
    /\ IF Serializable(parsed[i].data)
       THEN /\ files' = [files EXCEPT ![FileName(parsed[i].name)].content =
                            Written(parsed[i].data)]
            /\ UNCHANGED log
       ELSE /\ log' = Append(log, "exception: save")
            /\ UNCHANGED files
    /\ wtask' = [wtask EXCEPT ![i] = "dumped"]
    /\ UNCHANGED <<pc, doc, content, parsed>>
    /\ UNCHANGED restoVars

(* f.write raises (disk error): caught and logged by lines 212-213 *)
WriteDumpFails(i) ==
    /\ Writing
    /\ wtask[i] = "open"
    /\ log' = Append(log, "exception: save")
    /\ wtask' = [wtask EXCEPT ![i] = "dumped"]
    /\ UNCHANGED <<pc, doc, content, parsed, files>>
    /\ UNCHANGED restoVars

(* the with statement closes f *)
WriteClose(i) ==
    /\ Writing
    /\ wtask[i] = "dumped"
    /\ wtask' = [wtask EXCEPT ![i] = "done"]
    /\ UNCHANGED <<pc, log, doc, content, parsed, files>>
    /\ UNCHANGED restoVars

(* the flush of close() raises (disk error): outside the try *)
WriteCloseFails(i) ==
    /\ Writing
    /\ wtask[i] = "dumped"
    /\ files' = [files EXCEPT ![FileName(parsed[i].name)].content = Partial]
    /\ wtask' = [wtask EXCEPT ![i] = "raised"]
    /\ UNCHANGED <<pc, log, doc, content, parsed>>
    /\ UNCHANGED restoVars

(* pool.map re-raises a write task's exception in main *)
WriteRaised ==
    /\ pc = "write"
    /\ \E i \in Tasks : wtask[i] = "raised"
    /\ pc' = "aborted"
    /\ UNCHANGED <<log, doc, content, parsed, wtask, files>>
    /\ UNCHANGED restoVars

(* every write task returned: main returns *)
WriteJoin ==
    /\ pc = "write"
    /\ \A i \in Tasks : wtask[i] = "done"
    /\ pc' = "exit"
    /\ UNCHANGED <<log, doc, content, parsed, wtask, files>>
    /\ UNCHANGED restoVars

Next ==
    \/ LoadAndSplit
    \/ \E i \in Tasks : ParseTask(i)
    \/ ParseRaised
    \/ ParseJoin
    \/ \E i \in Tasks : WriteOpen(i)
    \/ \E i \in Tasks : WriteOpenFails(i)
    \/ \E i \in Tasks : WriteDump(i)
    \/ \E i \in Tasks : WriteDumpFails(i)
    \/ \E i \in Tasks : WriteClose(i)
    \/ \E i \in Tasks : WriteCloseFails(i)
    \/ WriteRaised
    \/ WriteJoin

Spec == Init /\ [][Next]_vars

-----------------------------------------------------------------------------
(* Claims about the run (under Spec).                                       *)

Resolves(c) == check_title(c.title) # None
Resolved == { i \in 1..Len(doc) : Resolves(doc[i]) }
Unresolved == { i \in 1..Len(doc) : ~Resolves(doc[i]) }
SkipRecords == { k \in 1..Len(log) : log[k] = "exception: title" }
FilesWritten == { f \in DOMAIN files : files[f].content.tag = "json" }
RunEnded == pc \in {"exit", "aborted"}

(* C5 as stated: whatever fails while one restaurant's file is written     *)
(* (the open, the disk, the serialization), write_to_json catches and logs *)
(* it and does not raise.                                                  *)
C5_AsStated ==
    \A i \in DOMAIN wtask : wtask[i] # "raised"

(* C6 as stated: a run does not abort, writes exactly one output file per  *)
(* container whose title resolves and logs exactly one skip record per     *)
(* container whose title does not.                                         *)
C6_AsStated ==
    RunEnded =>
        /\ pc = "exit"
        /\ Cardinality(FilesWritten) = Cardinality(Resolved)
        /\ Cardinality(SkipRecords) = Cardinality(Unresolved)

(* the key of each container of the document, None when unresolved *)
DocKeys == [i \in 1..Len(doc) |-> check_title(doc[i].title)]

(* the last container of the document, in document order, with this key *)
LastWithKey(keys, key) ==
    CHOOSE i \in 1..Len(keys) :
        /\ keys[i] = Str(key)
        /\ \A j \in (i + 1)..Len(keys) : keys[j] # Str(key)

(* C10: the keys handed to the pool are pairwise distinct (containers with *)
(* the same key collapse into one item, the later one in document order    *)
(* replacing the earlier), every key is lower-case, so the file names are  *)
(* pairwise distinct, and under every interleaving of the write tasks each *)
(* file is opened by at most one task.                                     *)
C10_OneWriterPerFile ==
    LET keys == DocKeys IN
    /\ \A i, j \in Tasks :
          i # j => /\ content[i].key # content[j].key
                   /\ FileName(content[i].key) # FileName(content[j].key)
    /\ \A i \in Tasks :
          /\ Lower(content[i].key) = content[i].key
          /\ content[i].week = doc[LastWithKey(keys, content[i].key)].week
    /\ \A f \in DOMAIN files : Cardinality(files[f].openers) <= 1
    /\ \A i \in DOMAIN wtask :
          wtask[i] \in {"open", "dumped"} => files[FileName(content[i].key)].openers = {i}

(* two containers of the document collapsed into one item, and the write   *)
(* tasks of two items hold their files open at the same time               *)
C10_Witness ==
    /\ \E i, j \in DOMAIN wtask : i # j /\ wtask[i] = "open" /\ wtask[j] = "open"
    /\ \E a, b \in Resolved :
          a < b /\ check_title(doc[a].title) = check_title(doc[b].title)
                /\ doc[a].week # doc[b].week

=============================================================================
